---- MODULE Spec2Model ----
(***************************************************************************)
(* Model of python/request_analysis.py: main() reads a CSV of play ids and *)
(* pitch types, creates a primary and a comparison player group segment    *)
(* with two POSTs, then creates a requested analysis with a third POST and *)
(* prints the decoded answer.  The script is straight-line code with no    *)
(* try/except, no status check and no timeout; the network and the server  *)
(* are the environment.                                                    *)
(***************************************************************************)
EXTENDS Integers, Sequences, FiniteSets, TLC

VARIABLES
    csv_file,                   \* rows of ../resources/movements_with_pitch_types.csv, as text
    csv_df,                     \* the DataFrame read_csv built from it
    pc,                         \* position of main()
    requests,                   \* outbound HTTP requests, in the order issued
    delivered,                  \* number of requests the network has answered (response or transport error)
    create_primary_segment,     \* Response object of the first POST
    primary_segment_id,         \* local of main(), line 119
    create_comparison_segment,  \* Response object of the second POST
    comparison_segment_id,      \* local of main(), line 148
    create_requested_analysis,  \* Response object of the third POST
    outcome,                    \* "running", "ok", or the name of the uncaught exception
    printed                     \* what print() wrote to stdout

vars == <<csv_file, csv_df, pc, requests, delivered, create_primary_segment,
          primary_segment_id, create_comparison_segment, comparison_segment_id,
          create_requested_analysis, outcome, printed>>

-----------------------------------------------------------------------------
(* Bounds of the model. *)

MaxRows == 2

-----------------------------------------------------------------------------
(* Values: JSON / Python values the script handles. Text is a sequence of  *)
(* one-character strings so that parsing can be computed.                  *)

Digits == {"0", "1", "2"}

JInt(n) == [k |-> "int", n |-> n, f |-> 0, s |-> <<>>]

JFloat(n, f) == [k |-> "float", n |-> n, f |-> f, s |-> <<>>]

JStr(s) == [k |-> "str", n |-> 0, f |-> 0, s |-> s]

JNull == [k |-> "null", n |-> 0, f |-> 0, s |-> <<>>]

Ok(v) == [ok |-> TRUE, val |-> v, exc |-> ""]

Err(e) == [ok |-> FALSE, val |-> JNull, exc |-> e]

DigitVal(c) == CASE c = "0" -> 0 [] c = "1" -> 1 [] c = "2" -> 2 [] OTHER -> 0

IsDecimal(s) == Len(s) > 0 /\ \A i \in 1..Len(s) : s[i] \in Digits

RECURSIVE DecimalValue(_)
DecimalValue(s) ==
    IF s = <<>> THEN 0
    ELSE 10 * DecimalValue(SubSeq(s, 1, Len(s) - 1)) + DigitVal(s[Len(s)])

\* Python's int(x) on a value decoded from JSON.
PyInt(v) ==
    CASE v.k = "int" -> Ok(v.n)
      [] v.k = "float" -> Ok(v.n)
      [] v.k = "str" -> IF IsDecimal(v.s) THEN Ok(DecimalValue(v.s)) ELSE Err("ValueError")
      [] OTHER -> Err("TypeError")

-----------------------------------------------------------------------------
(* The input file and pandas.read_csv (line 49).                           *)

\* Texts an MLBPlayId cell of the file may hold, and the PitchType labels.
IdCells == {<<"0", "1">>, <<"2">>, <<"a", "1">>}

Labels == {"Fastball", "Curveball", "fastball"}

CsvRows == [MLBPlayId : IdCells, PitchType : Labels]

CsvFiles == UNION {[1..n -> CsvRows] : n \in 0..MaxRows}

\* read_csv infers the type of a column from all of its cells: a column whose
\* cells are all decimal integers becomes an integer column (int64), any
\* other column keeps the cell texts (object).
ColumnIsInt(file) ==
    Len(file) > 0 /\ \A i \in 1..Len(file) : IsDecimal(file[i].MLBPlayId)

read_csv(file) ==
    [i \in 1..Len(file) |->
        [MLBPlayId |-> IF ColumnIsInt(file)
                       THEN JInt(DecimalValue(file[i].MLBPlayId))
                       ELSE JStr(file[i].MLBPlayId),
         PitchType |-> file[i].PitchType]]

-----------------------------------------------------------------------------
(* Steps 2-4a: filtering the DataFrame and building the criteria.          *)

\* csv_df[csv_df["PitchType"] == label]
FilterPitchType(df, label) == SelectSeq(df, LAMBDA r : r.PitchType = label)

\* df["MLBPlayId"].tolist()
PlayIdList(df) == [i \in 1..Len(df) |-> df[i].MLBPlayId]

PrimaryIds(df) == PlayIdList(FilterPitchType(df, "Fastball"))

ComparisonIds(df) == PlayIdList(FilterPitchType(df, "Curveball"))

SegmentCriteria(ids) ==
    [external_context_ids |-> ids,
     movement_type_id |-> 2,
     mocap_type_id |-> 104,
     dom_hand |-> "RHA"]

RequestedAnalysisCriteriaSwapped(p, c) ==
    [name |-> "Example Pitcher Fastballs vs Curveballs",
     primary_analysis_segment_id |-> c,
     comparison_analysis_segment_id |-> p,
     status |-> "requested"]

\* lines 161-175, given the two converted ids
RequestedAnalysisCriteria(p, c) ==
    [name |-> "Example Pitcher Fastballs vs Curveballs",
     primary_analysis_segment_id |-> p,
     comparison_analysis_segment_id |-> c,
     status |-> "requested"]

-----------------------------------------------------------------------------
(* HTTP: requests.post and the Response object.                            *)

SegmentsUrl == "https://api.rebootmotion.com/player_group_segments"

AnalysesUrl == "https://api.rebootmotion.com/requested_analyses"

\* requests.post(url, headers={'x-api-key': API_KEY}, json=body)
PostRequest(url, body) ==
    [method |-> "POST", url |-> url, header |-> "x-api-key", json |-> body]

\* analysis_segment_id values a segment answer may carry
IdValues == {JInt(10), JInt(20), JStr(<<"2", "0">>), JStr(<<"a">>), JFloat(10, 5)}

\* Bodies the server may answer with: text that is not JSON, a JSON object
\* without analysis_segment_id, or a JSON object with it.
Bodies ==
    {[json |-> FALSE, has_id |-> FALSE, id |-> JNull],
     [json |-> TRUE, has_id |-> FALSE, id |-> JNull]}
    \cup {[json |-> TRUE, has_id |-> TRUE, id |-> v] : v \in IdValues}

Statuses == {200, 500}

Responses == [status : Statuses, body : Bodies]

\* A Response variable before the call that assigns it has returned.
NoResponse == [status |-> 0, body |-> [json |-> FALSE, has_id |-> FALSE, id |-> JNull]]

\* Response.json()
ResponseJson(resp) ==
    IF resp.body.json THEN [ok |-> TRUE, val |-> resp.body, exc |-> ""]
    ELSE [ok |-> FALSE, val |-> resp.body, exc |-> "JSONDecodeError"]

\* A variant that reads the field with a default instead of subscripting.
SegmentIdOrNone(resp) ==
    LET j == ResponseJson(resp) IN
    IF ~j.ok THEN Err(j.exc)
    ELSE IF j.val.has_id THEN Ok(j.val.id) ELSE Ok(JNull)

\* A variant that converts the id as soon as it is read.
SegmentIdAsInt(resp) ==
    LET j == ResponseJson(resp) IN
    IF ~j.ok THEN Err(j.exc)
    ELSE IF ~j.val.has_id THEN Err("KeyError")
    ELSE IF PyInt(j.val.id).ok THEN Ok(j.val.id) ELSE Err(PyInt(j.val.id).exc)

\* resp.json()["analysis_segment_id"] (lines 119 and 148): the value as
\* decoded, unconverted; KeyError when the object has no such key.
SegmentIdOf(resp) ==
    LET j == ResponseJson(resp) IN
    IF ~j.ok THEN Err(j.exc)
    ELSE IF j.val.has_id THEN Ok(j.val.id) ELSE Err("KeyError")

-----------------------------------------------------------------------------
(* main(), lines 34-185.                                                   *)

Init ==
    /\ csv_file \in CsvFiles
    /\ csv_df = <<>>
    /\ pc = "read_csv"
    /\ requests = <<>>
    /\ delivered = 0
    /\ create_primary_segment = NoResponse
    /\ primary_segment_id = JNull
    /\ create_comparison_segment = NoResponse
    /\ comparison_segment_id = JNull
    /\ create_requested_analysis = NoResponse
    /\ outcome = "running"
    /\ printed = <<>>

\* A variant that repeats the last request once before giving up.
RaiseAfterRetry(exc) ==
    /\ pc' = "failed"
    /\ outcome' = exc
    /\ requests' = Append(requests, requests[Len(requests)])
    /\ UNCHANGED printed

\* A variant that deletes the segments created so far before giving up.
RaiseAfterCleanup(exc) ==
    /\ pc' = "failed"
    /\ outcome' = exc
    /\ requests' = IF create_primary_segment # NoResponse
                   THEN Append(requests, [method |-> "DELETE", url |-> SegmentsUrl,
                                          header |-> "x-api-key",
                                          json |-> primary_segment_id])
                   ELSE requests
    /\ UNCHANGED printed

\* An exception leaves main(): nothing in the script catches it, so the
\* process ends with the traceback and no further statement runs.
Raise(exc) ==
    /\ pc' = "failed"
    /\ outcome' = exc
    /\ UNCHANGED <<requests, printed>>

\* line 49
ReadCsv ==
    /\ pc = "read_csv"
    /\ csv_df' = read_csv(csv_file)
    /\ pc' = "post_primary"
    /\ UNCHANGED <<csv_file, requests, delivered, create_primary_segment,
                   primary_segment_id, create_comparison_segment,
                   comparison_segment_id, create_requested_analysis, outcome, printed>>

\* A variant that refuses to submit an empty group.
PostPrimarySkipEmpty ==
    /\ pc = "post_primary"
    /\ IF PrimaryIds(csv_df) = <<>>
       THEN Raise("ValueError")
       ELSE /\ requests' = Append(requests,
                                  PostRequest(SegmentsUrl, SegmentCriteria(PrimaryIds(csv_df))))
            /\ pc' = "await_primary"
            /\ UNCHANGED <<outcome, printed>>
    /\ UNCHANGED <<csv_file, csv_df, delivered, create_primary_segment,
                   primary_segment_id, create_comparison_segment,
                   comparison_segment_id, create_requested_analysis>>

\* lines 56-113, up to the request being on the wire
PostPrimary ==
    /\ pc = "post_primary"
    /\ requests' = Append(requests,
                          PostRequest(SegmentsUrl, SegmentCriteria(PrimaryIds(csv_df))))
    /\ pc' = "await_primary"
    /\ UNCHANGED <<csv_file, csv_df, delivered, create_primary_segment,
                   primary_segment_id, create_comparison_segment,
                   comparison_segment_id, create_requested_analysis, outcome, printed>>

\* A variant whose post call was given a timeout.
PrimaryResponseOrTimeout ==
    /\ pc = "await_primary"
    /\ \/ /\ delivered' = delivered + 1
          /\ \/ \E r \in Responses :
                  /\ create_primary_segment' = r
                  /\ pc' = "read_primary_id"
                  /\ UNCHANGED <<requests, outcome, printed>>
             \/ /\ Raise("ConnectionError")
                /\ UNCHANGED create_primary_segment
       \/ /\ Raise("Timeout")
          /\ UNCHANGED <<delivered, create_primary_segment>>
    /\ UNCHANGED <<csv_file, csv_df, primary_segment_id, create_comparison_segment,
                   comparison_segment_id, create_requested_analysis>>

\* lines 109-113, the call returning: a Response of any status, or the
\* transport failing. The call has no timeout argument.
PrimaryResponse ==
    /\ pc = "await_primary"
    /\ delivered' = delivered + 1
    /\ \/ \E r \in Responses :
            /\ create_primary_segment' = r
            /\ pc' = "read_primary_id"
            /\ UNCHANGED <<requests, outcome, printed>>
       \/ /\ Raise("ConnectionError")
          /\ UNCHANGED create_primary_segment
    /\ UNCHANGED <<csv_file, csv_df, primary_segment_id, create_comparison_segment,
                   comparison_segment_id, create_requested_analysis>>

\* line 119
ReadPrimaryId ==
    /\ pc = "read_primary_id"
    /\ LET got == SegmentIdOf(create_primary_segment) IN
       IF got.ok
       THEN /\ primary_segment_id' = got.val
            /\ pc' = "post_comparison"
            /\ UNCHANGED <<requests, outcome, printed>>
       ELSE /\ Raise(got.exc)
            /\ UNCHANGED primary_segment_id
    /\ UNCHANGED <<csv_file, csv_df, delivered, create_primary_segment,
                   create_comparison_segment, comparison_segment_id,
                   create_requested_analysis>>

\* lines 126-145, up to the request being on the wire
PostComparison ==
    /\ pc = "post_comparison"
    /\ requests' = Append(requests,
                          PostRequest(SegmentsUrl, SegmentCriteria(ComparisonIds(csv_df))))
    /\ pc' = "await_comparison"
    /\ UNCHANGED <<csv_file, csv_df, delivered, create_primary_segment,
                   primary_segment_id, create_comparison_segment,
                   comparison_segment_id, create_requested_analysis, outcome, printed>>

\* lines 141-145, the call returning
ComparisonResponse ==
    /\ pc = "await_comparison"
    /\ delivered' = delivered + 1
    /\ \/ \E r \in Responses :
            /\ create_comparison_segment' = r
            /\ pc' = "read_comparison_id"
            /\ UNCHANGED <<requests, outcome, printed>>
       \/ /\ Raise("ConnectionError")
          /\ UNCHANGED create_comparison_segment
    /\ UNCHANGED <<csv_file, csv_df, create_primary_segment, primary_segment_id,
                   comparison_segment_id, create_requested_analysis>>

\* line 148
ReadComparisonId ==
    /\ pc = "read_comparison_id"
    /\ LET got == SegmentIdOf(create_comparison_segment) IN
       IF got.ok
       THEN /\ comparison_segment_id' = got.val
            /\ pc' = "post_analysis"
            /\ UNCHANGED <<requests, outcome, printed>>
       ELSE /\ Raise(got.exc)
            /\ UNCHANGED comparison_segment_id
    /\ UNCHANGED <<csv_file, csv_df, delivered, create_primary_segment,
                   primary_segment_id, create_comparison_segment,
                   create_requested_analysis>>

\* lines 161-182, up to the request being on the wire: the dict display
\* evaluates int(primary_segment_id), then int(comparison_segment_id).
PostAnalysis ==
    /\ pc = "post_analysis"
    /\ LET p == PyInt(primary_segment_id)
           c == PyInt(comparison_segment_id) IN
       IF ~p.ok THEN Raise(p.exc)
       ELSE IF ~c.ok THEN Raise(c.exc)
       ELSE /\ requests' = Append(requests,
                                  PostRequest(AnalysesUrl,
                                              RequestedAnalysisCriteria(p.val, c.val)))
            /\ pc' = "await_analysis"
            /\ UNCHANGED <<outcome, printed>>
    /\ UNCHANGED <<csv_file, csv_df, delivered, create_primary_segment,
                   primary_segment_id, create_comparison_segment,
                   comparison_segment_id, create_requested_analysis>>

\* lines 178-182, the call returning
AnalysisResponse ==
    /\ pc = "await_analysis"
    /\ delivered' = delivered + 1
    /\ \/ \E r \in Responses :
            /\ create_requested_analysis' = r
            /\ pc' = "print"
            /\ UNCHANGED <<requests, outcome, printed>>
       \/ /\ Raise("ConnectionError")
          /\ UNCHANGED create_requested_analysis
    /\ UNCHANGED <<csv_file, csv_df, create_primary_segment, primary_segment_id,
                   create_comparison_segment, comparison_segment_id>>

\* line 185, then main() returns
PrintResult ==
    /\ pc = "print"
    /\ LET j == ResponseJson(create_requested_analysis) IN
       IF j.ok
       THEN /\ printed' = Append(printed, j.val)
            /\ pc' = "done"
            /\ outcome' = "ok"
            /\ UNCHANGED requests
       ELSE Raise(j.exc)
    /\ UNCHANGED <<csv_file, csv_df, delivered, create_primary_segment,
                   primary_segment_id, create_comparison_segment,
                   comparison_segment_id, create_requested_analysis>>

Next ==
    \/ ReadCsv
    \/ PostPrimary
    \/ PrimaryResponse
    \/ ReadPrimaryId
    \/ PostComparison
    \/ ComparisonResponse
    \/ ReadComparisonId
    \/ PostAnalysis
    \/ AnalysisResponse
    \/ PrintResult

Spec == Init /\ [][Next]_vars

\* The interpreter runs the next statement, and every request on the wire is
\* eventually answered or fails.
LiveSpec == Init /\ [][Next]_vars /\ WF_vars(Next)

-----------------------------------------------------------------------------
(* Properties.                                                             *)

Received(resp) == resp # NoResponse

Is2xx(resp) == resp.status \div 100 = 2

HasId(resp) == Received(resp) /\ resp.body.json /\ resp.body.has_id

MissingId(resp) == Received(resp) /\ resp.body.json /\ ~resp.body.has_id

Terminated == pc \in {"done", "failed"}

WaitPcs == {"await_primary", "await_comparison", "await_analysis"}

\* The identifier texts of the rows of the file that carry the label.
IdentifierStrings(label) ==
    LET rows == SelectSeq(csv_file, LAMBDA r : r.PitchType = label)
    IN  [i \in 1..Len(rows) |-> JStr(rows[i].MLBPlayId)]

\* What int() makes of an id that it accepts.
IntegerOf(v) ==
    CASE v.k = "int" -> v.n
      [] v.k = "float" -> v.n
      [] OTHER -> DecimalValue(v.s)

\* C1: the requests issued are always a prefix of [POST segments with the
\* primary criteria, POST segments with the comparison criteria, POST
\* requested_analyses]; the second is issued only after the first was
\* answered, the third only after both ids were obtained, and a run that
\* succeeds has issued exactly the three.
C1_RequestOrder ==
    /\ Len(requests) <= 3
    /\ \A i \in 1..Len(requests) : requests[i].method = "POST"
    /\ Len(requests) >= 1 =>
          /\ requests[1].url = SegmentsUrl
          /\ requests[1].json =
                SegmentCriteria(PlayIdList(FilterPitchType(csv_df, "Fastball")))
    /\ Len(requests) >= 2 =>
          /\ requests[2].url = SegmentsUrl
          /\ requests[2].json =
                SegmentCriteria(PlayIdList(FilterPitchType(csv_df, "Curveball")))
          /\ HasId(create_primary_segment)
          /\ delivered >= 1
    /\ Len(requests) >= 3 =>
          /\ requests[3].url = AnalysesUrl
          /\ HasId(create_primary_segment)
          /\ HasId(create_comparison_segment)
          /\ delivered >= 2
    /\ pc = "done" => Len(requests) = 3

C1_Witness == pc = "done" /\ Len(requests) = 3 /\ delivered = 3

\* C2 (as amended): the body of the requested-analysis POST carries
\* int(id of the first answer) as primary_analysis_segment_id and
\* int(id of the second answer) as comparison_analysis_segment_id, never
\* swapped, with status "requested": an integer id is passed as it is, a
\* string of digits is parsed and a fractional number loses its fraction.
C2_IdsConvertedInPlace ==
    Len(requests) = 3 =>
        LET b == requests[3].json
            p == create_primary_segment.body.id
            c == create_comparison_segment.body.id
        IN  /\ b.status = "requested"
            /\ b.primary_analysis_segment_id = IntegerOf(p)
            /\ b.comparison_analysis_segment_id = IntegerOf(c)
            /\ p.k = "int" => b.primary_analysis_segment_id = p.n
            /\ c.k = "int" => b.comparison_analysis_segment_id = c.n

C2_Witness ==
    /\ Len(requests) = 3
    /\ create_primary_segment.body.id = JInt(10)
    /\ create_comparison_segment.body.id = JInt(20)
    /\ requests[3].json.primary_analysis_segment_id = 10
    /\ requests[3].json.comparison_analysis_segment_id = 20

\* C2 as stated: the ids in the body equal the ids the segment answers
\* returned, for every pair of answers.
C2_IdsEqualReturned ==
    Len(requests) = 3 =>
        LET b == requests[3].json
        IN  /\ b.status = "requested"
            /\ JInt(b.primary_analysis_segment_id) = create_primary_segment.body.id
            /\ JInt(b.comparison_analysis_segment_id) = create_comparison_segment.body.id

\* C3: the external_context_ids of the first segment request are the
\* identifier strings of the rows labelled "Fastball", those of the second
\* the identifier strings of the rows labelled "Curveball", in row order.
C3_IdentifierStrings ==
    /\ Len(requests) >= 1 =>
          requests[1].json.external_context_ids = IdentifierStrings("Fastball")
    /\ Len(requests) >= 2 =>
          requests[2].json.external_context_ids = IdentifierStrings("Curveball")

\* C4: a segment answer that is a JSON object without analysis_segment_id
\* makes the run fail on the missing key, and no request follows it.
C4_MissingIdAborts ==
    /\ MissingId(create_primary_segment) =>
          /\ Len(requests) = 1
          /\ pc \in {"read_primary_id", "failed"}
          /\ pc = "failed" => outcome = "KeyError"
    /\ MissingId(create_comparison_segment) =>
          /\ Len(requests) = 2
          /\ pc \in {"read_comparison_id", "failed"}
          /\ pc = "failed" => outcome = "KeyError"

C4_Witness ==
    /\ pc = "failed"
    /\ outcome = "KeyError"
    /\ HasId(create_primary_segment)
    /\ MissingId(create_comparison_segment)
    /\ Len(requests) = 2

\* C5: a segment POST that fails in transport or is answered with a non-2xx
\* status aborts the run, whatever the body: no later request is issued.
C5_Non2xxAborts ==
    /\ (Received(create_primary_segment) /\ ~Is2xx(create_primary_segment)) =>
          /\ Len(requests) = 1
          /\ pc \in {"read_primary_id", "failed"}
    /\ (Received(create_comparison_segment) /\ ~Is2xx(create_comparison_segment)) =>
          /\ Len(requests) = 2
          /\ pc \in {"read_comparison_id", "failed"}
    /\ outcome = "ConnectionError" => pc = "failed" /\ Len(requests) = delivered

\* C6: a requested-analysis POST answered with a non-2xx status ends the run
\* in an error; the decoded body is printed only when the POST succeeded,
\* and at most once.
C6_PrintOnlyOnSuccess ==
    /\ Len(printed) <= 1
    /\ printed # <<>> => Is2xx(create_requested_analysis)
    /\ (Received(create_requested_analysis) /\ ~Is2xx(create_requested_analysis)) =>
          pc \in {"print", "failed"}

\* C7: an empty group is submitted like any other: the segment POST is
\* issued with an empty external_context_ids, the following steps depend
\* only on the answers, and a failure comes only after an answer.
C7_EmptyGroupStillPosted ==
    /\ pc \notin {"read_csv", "post_primary"} =>
          /\ Len(requests) >= 1
          /\ FilterPitchType(csv_df, "Fastball") = <<>> =>
                requests[1].json.external_context_ids = <<>>
    /\ (HasId(create_primary_segment) /\ pc \notin {"read_primary_id", "post_comparison"}) =>
          /\ Len(requests) >= 2
          /\ FilterPitchType(csv_df, "Curveball") = <<>> =>
                requests[2].json.external_context_ids = <<>>
    /\ pc = "failed" => delivered >= 1

C7_Witness ==
    /\ pc = "done"
    /\ Len(csv_df) > 0
    /\ requests[1].json.external_context_ids = <<>>
    /\ requests[2].json.external_context_ids # <<>>

AnswerArrives ==
    pc \in WaitPcs => (delivered' = delivered + 1 /\ requests' = requests)

\* C9: when every request is answered the run terminates, having issued at
\* most three requests; while a request is unanswered the run does nothing:
\* the only step out of a waiting position is the arrival of its answer.
C9_BlocksUntilAnswered ==
    /\ <>Terminated
    /\ [](Len(requests) <= 3)
    /\ [][AnswerArrives]_vars

C9_Witness ==
    /\ pc = "await_analysis"
    /\ Len(requests) = 3
    /\ delivered = 2

\* C10: an analysis_segment_id of the primary answer that int() rejects does
\* not stop the comparison segment request; the run fails after the second
\* segment request and the requested-analysis request is never sent.
C10_ConversionDeferred ==
    (HasId(create_primary_segment) /\ ~PyInt(create_primary_segment.body.id).ok) =>
        /\ Len(requests) <= 2
        /\ pc \notin {"await_analysis", "print", "done"}
        /\ pc # "read_primary_id" => primary_segment_id = create_primary_segment.body.id
        /\ pc = "failed" => Len(requests) = 2
        /\ (pc = "failed" /\ HasId(create_comparison_segment)) => outcome = "ValueError"

C10_Witness ==
    /\ pc = "failed"
    /\ outcome = "ValueError"
    /\ HasId(create_primary_segment)
    /\ ~PyInt(create_primary_segment.body.id).ok
    /\ HasId(create_comparison_segment)
    /\ Len(requests) = 2

====
